---- MODULE Spec2Model ----
(***************************************************************************)
(* The image-generation pipeline of the ad-creative service: the two HTTP  *)
(* entry points of app/main.py (create_image, edit_image_endpoint), the    *)
(* invokers of app/image_gen.py, the persister of app/supabase_storage.py  *)
(* and the file-based pipelines of app/openai_api.py.                      *)
(*                                                                         *)
(* One request is followed from its arrival to its response.  Texts are    *)
(* sequences of string tokens, so that concatenation (f-strings),          *)
(* lower-casing and substring search are computed, not assumed.  Every     *)
(* collaborator (vision model, image model, object store, metadata store,  *)
(* file system) answers or fails, chosen by the environment.               *)
(***************************************************************************)
EXTENDS Integers, Sequences, FiniteSets, TLC

\* Longest list of uploaded images a request carries.
MaxRefs == 2

(***************************************************************************)
(* Texts                                                                   *)
(***************************************************************************)

\* str.lower() on one token.
LowerWord(w) ==
    CASE w = "Quota" -> "quota"
      [] w = "Rate"  -> "rate"
      [] w = "Limit" -> "limit"
      [] OTHER       -> w

\* str.lower() on a text.
Lower(text) == [i \in 1..Len(text) |-> LowerWord(text[i])]

\* `needle in text`: needle occurs as a contiguous run of text.
Contains(text, needle) ==
    \E i \in 1..(Len(text) - Len(needle) + 1) :
        SubSeq(text, i, i + Len(needle) - 1) = needle

\* The messages a failing collaborator call may carry.
ErrTexts ==
    { <<"exceeded", "Quota">>,
      <<"Rate", "limit", "reached">>,
      <<"quota", "and", "rate", "limit">>,
      <<"connection", "reset">> }

\* The one message of a failing file-system or storage call.
IoErrText == <<"io", "error">>

\* The style sentences the vision model may answer with.
Descs == {"warm tones", "flat design"}

(***************************************************************************)
(* Requests                                                                *)
(***************************************************************************)

\* SUPPORTED_SIZES with a size of the earlier image model left in.
SUPPORTED_SIZES_legacy == {"1024x1024", "1024x1536", "1536x1024", "auto", "512x512"}

SUPPORTED_SIZES == {"1024x1024", "1024x1536", "1536x1024", "auto"}

EDIT_BACKGROUNDS == {"transparent", "opaque", "auto"}

EDIT_QUALITIES == {"standard", "low", "medium", "high", "auto"}

\* Values a client may send in the form fields.
SizeInputs == {"1024x1024", "1536x1024", "auto", "512x512"}
BackgroundInputs == {"auto", "transparent", "neon"}
QualityInputs == {"auto", "high", "ultra"}
FormatInputs == {"png", "gif"}
\* Optional[int]: <<>> is None, <<c>> the integer c.
CompressionInputs == {<<>>, <<"80">>}

\* An uploaded image either decodes (PIL Image.open succeeds) or does not.
ImageKinds == {"ok", "corrupt"}

ImageSeqs(lo) == UNION { [1..n -> ImageKinds] : n \in lo..MaxRefs }

BasePrompt == <<"a red car">>

HttpEndpoints == {"generate", "edit"}

HttpRequests ==
    [ep : {"generate"}, size : SizeInputs, background : BackgroundInputs,
     quality : QualityInputs, output_format : FormatInputs,
     output_compression : CompressionInputs,
     images : ImageSeqs(0), mask : {"none"}, mask_pixels : {<<>>}, ad_text : {""}]
    \cup
    [ep : {"edit"}, size : SizeInputs, background : BackgroundInputs,
     quality : QualityInputs, output_format : {"png"},
     output_compression : CompressionInputs,
     images : ImageSeqs(1), mask : {"none", "RGBA"}, mask_pixels : {<<>>},
     ad_text : {""}]

VARIABLES
    req,                \* the request being served
    pc,                 \* position of the handler
    idx,                \* loop index over the request's images (1-based)
    style_descriptions, \* generate_image: the hints gathered so far
    enhanced_prompt,    \* the prompt handed to the image model
    analysis,           \* modify_image: image_analysis
    calls,              \* every collaborator call made, in order
    cause,              \* the first failure of the run: [op, text], or NoCause
    resp,               \* what the caller receives, or NoResp
    temp_input_paths,   \* the temporary paths of the run, in creation order
    disk,               \* temporary files now on disk
    created,            \* temporary files ever created
    deleted,            \* temporary files removed by os.remove
    remove_failed,      \* temporary files whose os.remove raised
    pending,            \* what travels to the finally block: exception or return value
    bucket,             \* object store: the paths uploaded
    local_files,        \* files written under static/<folder>/
    metadata,           \* rows of the image_metadata table
    next_uuid,          \* the next value uuid.uuid4() returns
    inflight,           \* requests running side by side: each one's position and paths
    temp_dir,           \* the temporary files on the disk they share, with their writers
    uuid_source,        \* the next value uuid.uuid4() returns to any of them
    clobbered           \* temporary files overwritten or removed by another request

vars == <<req, pc, idx, style_descriptions, enhanced_prompt, analysis, calls,
          cause, resp, temp_input_paths, disk, created, deleted, remove_failed,
          pending,
          bucket, local_files, metadata, next_uuid,
          inflight, temp_dir, uuid_source, clobbered>>

tempVars == <<temp_input_paths, disk, created, deleted, remove_failed, pending>>
storeVars == <<bucket, local_files, metadata>>
genVars == <<idx, style_descriptions, enhanced_prompt, analysis>>
flightVars == <<inflight, temp_dir, uuid_source, clobbered>>

NoResp == [kind |-> "none", status |-> 0]
NoCause == [op |-> "none"]
\* Nothing travels to the finally block yet.
NoExc == [kind |-> "none"]

\* raise HTTPException(status_code=status, detail=detail), as the caller sees it.
HTTPError(status, detail) == [kind |-> "http_error", status |-> status, detail |-> detail]

\* The JSON body of a successful endpoint call.
HTTPResult(data, filename, public_url) ==
    [kind |-> "http_ok", status |-> 200, data |-> data, filename |-> filename,
     public_url |-> public_url]

\* A plain function of app/openai_api.py raises, or returns its dict.
Raised(msg) == [kind |-> "exception", status |-> 0, detail |-> msg]
Returned(filename, url, prompt) ==
    [kind |-> "return", status |-> 0, filename |-> filename, url |-> url,
     prompt |-> prompt]

\* str(e) of a starlette HTTPException: "<status>: <detail>".
StrHTTPException(e) == <<ToString(e.status), ": ">> \o e.detail

\* One collaborator call: what was called, with what, and how it answered
\* ("ok" or "error"; for the image model "data", "nodata" or "error").
Call(op, arg, result) == [op |-> op, arg |-> arg, result |-> result]

Res(ok) == IF ok THEN "ok" ELSE "error"

\* The failure a run ends on.
Cause(op, text) == [op |-> op, text |-> text]

(***************************************************************************)
(* app/main.py: create_image, and app/image_gen.py: generate_image         *)
(***************************************************************************)

\* The caller's view of the `except Exception` clause of create_image.
CreateImageError(msg) == HTTPError(500, <<"Error generating image: ">> \o msg)

\* GenerateImageError with the underlying message left out.
GenerateImageError_opaque(msg) == <<"Error generating image">>

\* generate_image's outer `except Exception`: the error is wrapped once more.
GenerateImageError(msg) == <<"Error generating image: ">> \o msg

\* The size check, then the read of the uploaded reference images.
create_image_validate ==
    /\ pc = "validate"
    /\ req.ep = "generate"
    /\ IF req.size \notin SUPPORTED_SIZES
         THEN /\ resp' = HTTPError(400, <<"Invalid size. Allowed sizes: ">>)
              /\ pc' = "failed"
         ELSE /\ pc' = "prepare"
              /\ UNCHANGED resp
    /\ UNCHANGED <<req, flightVars, genVars, calls, cause, tempVars, storeVars, next_uuid>>

\* generate_image_reference with a loop that does not move past a reference
\* image that fails to decode.
generate_image_reference_stuck ==
    /\ pc = "prepare"
    /\ req.ep = "generate"
    /\ idx <= Len(req.images)
    /\ IF req.images[idx] = "corrupt"
         THEN UNCHANGED <<calls, idx, style_descriptions, pc, resp, cause>>
         ELSE \/ \E d \in Descs :
                   /\ calls' = Append(calls, Call("vision", idx, "ok"))
                   /\ style_descriptions' = Append(style_descriptions, d)
                   /\ idx' = idx + 1
                   /\ UNCHANGED <<pc, resp, cause>>
              \/ \E e \in ErrTexts :
                   /\ calls' = Append(calls, Call("vision", idx, "error"))
                   /\ cause' = Cause("vision", e)
                   /\ resp' = CreateImageError(GenerateImageError(
                                 <<"Failed to process reference image ", ToString(idx),
                                   ": ">> \o e))
                   /\ pc' = "failed"
                   /\ UNCHANGED <<idx, style_descriptions>>
    /\ UNCHANGED <<req, flightVars, enhanced_prompt, analysis, tempVars, storeVars,
                   next_uuid>>

\* generate_image_reference with a reference image that fails skipped
\* instead of raised.
generate_image_reference_skipping ==
    /\ pc = "prepare"
    /\ req.ep = "generate"
    /\ idx <= Len(req.images)
    /\ IF req.images[idx] = "corrupt"
         THEN UNCHANGED <<calls, style_descriptions>>
         ELSE \/ \E d \in Descs :
                   /\ calls' = Append(calls, Call("vision", idx, "ok"))
                   /\ style_descriptions' = Append(style_descriptions, d)
              \/ /\ calls' = Append(calls, Call("vision", idx, "error"))
                 /\ UNCHANGED style_descriptions
    /\ idx' = idx + 1
    /\ UNCHANGED <<req, flightVars, pc, resp, cause, enhanced_prompt, analysis, tempVars,
                   storeVars, next_uuid>>

\* One turn of the loop over reference_images: decode, then one vision call.
\* Either failing raises out of generate_image.
generate_image_reference ==
    /\ pc = "prepare"
    /\ req.ep = "generate"
    /\ idx <= Len(req.images)
    /\ LET failed(e) ==
               <<"Failed to process reference image ", ToString(idx), ": ">> \o e
       IN  IF req.images[idx] = "corrupt"
             THEN /\ cause' = Cause("decode", IoErrText)
                  /\ resp' = CreateImageError(GenerateImageError(failed(IoErrText)))
                  /\ pc' = "failed"
                  /\ UNCHANGED <<calls, idx, style_descriptions>>
             ELSE \/ \E d \in Descs :
                       /\ calls' = Append(calls, Call("vision", idx, "ok"))
                       /\ style_descriptions' = Append(style_descriptions, d)
                       /\ idx' = idx + 1
                       /\ UNCHANGED <<pc, resp, cause>>
                  \/ \E e \in ErrTexts :
                       /\ calls' = Append(calls, Call("vision", idx, "error"))
                       /\ cause' = Cause("vision", e)
                       /\ resp' = CreateImageError(GenerateImageError(failed(e)))
                       /\ pc' = "failed"
                       /\ UNCHANGED <<idx, style_descriptions>>
    /\ UNCHANGED <<req, flightVars, enhanced_prompt, analysis, tempVars, storeVars, next_uuid>>

\* JoinHints with the descriptions in the reverse of the reference-image order.
JoinHints_reversed(descs) ==
    [k \in 1..(2 * Len(descs) - 1) |->
        IF k % 2 = 1 THEN descs[Len(descs) + 1 - ((k + 1) \div 2)] ELSE "; "]

\* "; ".join(descs)
RECURSIVE JoinHints(_)
JoinHints(descs) ==
    IF descs = <<>> THEN <<>>
    ELSE IF Len(descs) = 1 THEN <<descs[1]>>
    ELSE <<descs[1], "; ">> \o JoinHints(Tail(descs))

\* The prompt after the reference loop.
StyleHintPrompt(prompt, descs) == prompt \o <<". Style hints: ">> \o JoinHints(descs)

\* generate_image_compose with the hints segment appended also when the
\* request carries no reference image.
generate_image_compose_unguarded ==
    /\ pc = "prepare"
    /\ req.ep = "generate"
    /\ idx > Len(req.images)
    /\ IF req.images = <<>> \/ style_descriptions # <<>>
         THEN /\ enhanced_prompt' = StyleHintPrompt(BasePrompt, style_descriptions)
              /\ pc' = "generate"
              /\ UNCHANGED <<resp, cause>>
         ELSE /\ cause' = Cause("styles", <<"No style descriptions">>)
              /\ resp' = CreateImageError(GenerateImageError(<<"No style descriptions">>))
              /\ pc' = "failed"
              /\ UNCHANGED enhanced_prompt
    /\ UNCHANGED <<req, flightVars, idx, style_descriptions, analysis, calls, tempVars,
                   storeVars, next_uuid>>

\* After the loop: fold the hints into the prompt.
generate_image_compose ==
    /\ pc = "prepare"
    /\ req.ep = "generate"
    /\ idx > Len(req.images)
    /\ IF req.images = <<>>
         THEN /\ enhanced_prompt' = BasePrompt
              /\ pc' = "generate"
              /\ UNCHANGED <<resp, cause>>
         ELSE IF style_descriptions # <<>>
           THEN /\ enhanced_prompt' = StyleHintPrompt(BasePrompt, style_descriptions)
                /\ pc' = "generate"
                /\ UNCHANGED <<resp, cause>>
           ELSE /\ cause' = Cause("styles", <<"No style descriptions">>)
                /\ resp' = CreateImageError(GenerateImageError(<<"No style descriptions">>))
                /\ pc' = "failed"
                /\ UNCHANGED enhanced_prompt
    /\ UNCHANGED <<req, flightVars, idx, style_descriptions, analysis, calls, tempVars,
                   storeVars, next_uuid>>

\* GenerateKeys with size, background and quality sent also when "auto".
GenerateKeys_explicit_auto(r) ==
    {"model", "prompt", "n", "output_format", "size", "background", "quality"}
      \cup (IF r.output_compression # <<>> THEN {"output_compression"} ELSE {})

\* The keys of the params dict of generate_image.
GenerateKeys(r) ==
    {"model", "prompt", "n", "output_format"}
      \cup (IF r.size # "auto" THEN {"size"} ELSE {})
      \cup (IF r.background # "auto" THEN {"background"} ELSE {})
      \cup (IF r.quality # "auto" THEN {"quality"} ELSE {})
      \cup (IF r.output_compression # <<>> THEN {"output_compression"} ELSE {})

GenerateParams(r, prompt) ==
    [k \in GenerateKeys(r) |->
        CASE k = "model" -> "gpt-image-1"
          [] k = "prompt" -> prompt
          [] k = "n" -> 1
          [] k = "output_format" -> r.output_format
          [] k = "size" -> r.size
          [] k = "background" -> r.background
          [] k = "quality" -> r.quality
          [] k = "output_compression" -> r.output_compression[1]]

\* What the image model may answer: an image, a response without data, an error.
ImageOutcomes == {<<"data">>, <<"nodata">>} \cup { <<"error", e>> : e \in ErrTexts }

\* HasImageData with a response without image data taken for one with data.
HasImageData_always(o) == TRUE

\* HasImageData with the test on the response dropped.
HasImageData_never(o) == FALSE

\* `if result and result.data and len(result.data) > 0` of the two endpoints.
HasImageData(o) == o[1] = "data"

\* client.images.generate(**params) and the return to create_image.
generate_image_call ==
    /\ pc = "generate"
    /\ req.ep = "generate"
    /\ \E o \in ImageOutcomes :
         /\ calls' = Append(calls, Call("generate", GenerateParams(req, enhanced_prompt),
                                        o[1]))
         /\ IF o[1] = "error"
              THEN /\ pc' = "failed"
                   /\ cause' = Cause("generate", o[2])
                   /\ resp' = CreateImageError(GenerateImageError(o[2]))
              ELSE IF HasImageData(o)
                THEN /\ pc' = "persist"
                     /\ UNCHANGED <<resp, cause>>
                ELSE /\ pc' = "done"
                     /\ resp' = HTTPResult(FALSE, <<>>, <<>>)
                     /\ UNCHANGED cause
    /\ UNCHANGED <<req, flightVars, genVars, tempVars, storeVars, next_uuid>>

(***************************************************************************)
(* app/main.py: edit_image_endpoint, and app/image_gen.py: edit_image      *)
(***************************************************************************)

\* The three checks before the try block.
edit_image_endpoint_validate ==
    /\ pc = "validate"
    /\ req.ep = "edit"
    /\ IF req.size \notin SUPPORTED_SIZES
         THEN /\ resp' = HTTPError(400, <<"Invalid size. Allowed sizes: ">>)
              /\ pc' = "failed"
         ELSE IF req.background \notin EDIT_BACKGROUNDS
           THEN /\ resp' = HTTPError(400, <<"Invalid background.">>)
                /\ pc' = "failed"
           ELSE IF req.quality \notin EDIT_QUALITIES
             THEN /\ resp' = HTTPError(400, <<"Invalid quality.">>)
                  /\ pc' = "failed"
             ELSE /\ pc' = "prepare"
                  /\ UNCHANGED resp
    /\ UNCHANGED <<req, flightVars, genVars, calls, cause, tempVars, storeVars, next_uuid>>

\* EditKeys with background and quality left out when "auto".
EditKeys_omit_auto(r) ==
    {"model", "prompt", "n", "image"}
      \cup (IF r.background # "auto" THEN {"background"} ELSE {})
      \cup (IF r.quality # "auto" THEN {"quality"} ELSE {})
      \cup (IF r.mask # "none" THEN {"mask"} ELSE {})
      \cup (IF r.size # "auto" THEN {"size"} ELSE {})
      \cup (IF r.output_compression # <<>> THEN {"output_compression"} ELSE {})

\* The keys of the params dict of edit_image.
EditKeys(r) ==
    {"model", "prompt", "n", "background", "quality", "image"}
      \cup (IF r.mask # "none" THEN {"mask"} ELSE {})
      \cup (IF r.size # "auto" THEN {"size"} ELSE {})
      \cup (IF r.output_compression # <<>> THEN {"output_compression"} ELSE {})

EditParams(r, prompt) ==
    [k \in EditKeys(r) |->
        CASE k = "model" -> "gpt-image-1"
          [] k = "prompt" -> prompt
          [] k = "n" -> 1
          [] k = "background" -> r.background
          [] k = "quality" -> r.quality
          [] k = "image" -> r.images
          [] k = "mask" -> r.mask
          [] k = "size" -> r.size
          [] k = "output_compression" -> r.output_compression[1]]

\* The upload files and the mask are read into memory; the prompt is unchanged.
edit_image_prepare ==
    /\ pc = "prepare"
    /\ req.ep = "edit"
    /\ enhanced_prompt' = BasePrompt
    /\ idx' = Len(req.images) + 1
    /\ pc' = "generate"
    /\ UNCHANGED <<req, flightVars, style_descriptions, analysis, calls, cause, resp,
                   tempVars, storeVars, next_uuid>>

QuotaDetail ==
    <<"OpenAI API quota exceeded. Please try again later or check your API key.">>

RateLimitDetail == <<"OpenAI API rate limit reached. Please try again later.">>

\* EditImageError with the rate-limit test made before the quota test.
EditImageError_rate_first(error_message) ==
    IF Contains(Lower(error_message), <<"rate", "limit">>)
      THEN HTTPError(429, RateLimitDetail)
    ELSE IF Contains(Lower(error_message), <<"quota">>)
      THEN HTTPError(429, QuotaDetail)
    ELSE HTTPError(500, <<"Error editing image: ">> \o error_message)

\* The except clause of edit_image: the HTTPException it raises.
EditImageError(error_message) ==
    IF Contains(Lower(error_message), <<"quota">>)
      THEN HTTPError(429, QuotaDetail)
    ELSE IF Contains(Lower(error_message), <<"rate", "limit">>)
      THEN HTTPError(429, RateLimitDetail)
    ELSE HTTPError(500, <<"Error editing image: ">> \o error_message)

\* The `except Exception` clause of edit_image_endpoint, which also catches the
\* HTTPException edit_image raised.
EditEndpointError(e) == HTTPError(500, <<"Error editing image: ">> \o StrHTTPException(e))

\* edit_image_call with a failed call to the image model tried once more.
edit_image_call_retrying ==
    /\ pc = "generate"
    /\ req.ep = "edit"
    /\ \E o \in ImageOutcomes :
         /\ calls' = Append(calls, Call("edit", EditParams(req, enhanced_prompt),
                                        o[1]))
         /\ IF o[1] = "error" /\ calls = <<>>
              THEN UNCHANGED <<pc, cause, resp>>
              ELSE IF o[1] = "error"
                THEN /\ pc' = "failed"
                     /\ cause' = Cause("edit", o[2])
                     /\ resp' = EditEndpointError(EditImageError(o[2]))
                ELSE IF HasImageData(o)
                  THEN /\ pc' = "persist"
                       /\ UNCHANGED <<resp, cause>>
                  ELSE /\ pc' = "done"
                       /\ resp' = HTTPResult(FALSE, <<>>, <<>>)
                       /\ UNCHANGED cause
    /\ UNCHANGED <<req, flightVars, genVars, tempVars, storeVars, next_uuid>>

\* client.images.edit(**params) and the return to edit_image_endpoint.
edit_image_call ==
    /\ pc = "generate"
    /\ req.ep = "edit"
    /\ \E o \in ImageOutcomes :
         /\ calls' = Append(calls, Call("edit", EditParams(req, enhanced_prompt),
                                        o[1]))
         /\ IF o[1] = "error"
              THEN /\ pc' = "failed"
                   /\ cause' = Cause("edit", o[2])
                   /\ resp' = EditEndpointError(EditImageError(o[2]))
              ELSE IF HasImageData(o)
                THEN /\ pc' = "persist"
                     /\ UNCHANGED <<resp, cause>>
                ELSE /\ pc' = "done"
                     /\ resp' = HTTPResult(FALSE, <<>>, <<>>)
                     /\ UNCHANGED cause
    /\ UNCHANGED <<req, flightVars, genVars, tempVars, storeVars, next_uuid>>

(***************************************************************************)
(* app/supabase_storage.py: upload_image, ensure_folder_exists,            *)
(* upload_local; app/supabase_db.py: insert_image_metadata                 *)
(***************************************************************************)

\* f"{folder}_{uuid.uuid4()}.png"
Filename(folder, u) == <<folder, "_", ToString(u), ".png">>

\* f"{folder}/{filename}"
StoragePath(folder, filename) == <<folder, "/">> \o filename

\* What get_public_url answers for a stored path.
PublicUrl(storage_path) == <<"https://bucket/">> \o storage_path

\* f"static/{folder}/{filename}"
LocalPath(folder, filename) == <<"static/", folder, "/">> \o filename

\* f"/static/{folder}/{filename}"
LocalUrl(folder, filename) == <<"/static/", folder, "/">> \o filename

\* The folder argument the two endpoints pass.
Folder(ep) == IF ep = "generate" THEN "generated" ELSE "edited"

\* How the collaborators of one upload_image call answer.
UploadEnvs ==
    [list : BOOLEAN, placeholder : BOOLEAN, upload : BOOLEAN,
     url : {"url", "empty", "raise"},
     meta : {"ok", "insert_fails", "import_fails"},
     local : BOOLEAN]

\* ensure_folder_exists: list the folder; when that fails, upload a placeholder.
\* Its answer is only logged.
EnsureFolderCalls(folder, env) ==
    <<Call("storage_list", <<folder>>, Res(env.list))>>
      \o (IF env.list THEN <<>>
          ELSE <<Call("storage_upload", <<folder, "/.placeholder">>,
                   Res(env.placeholder))>>)

EnsureFolderObjects(folder, env) ==
    IF ~env.list /\ env.placeholder THEN {<<folder, "/.placeholder">>} ELSE {}

\* The row insert_image_metadata writes.
MetadataRecord(filename, storage_path, public_url, r) ==
    [image_id |-> filename, storage_path |-> storage_path,
     public_url |-> public_url, prompt |-> BasePrompt, size |-> r.size,
     is_reference |-> FALSE]

\* MetadataEscapes with the inner except clauses missing.
MetadataEscapes_uncaught(env) == env.meta # "ok"

\* What leaves the inner try around the metadata insert: both except clauses
\* (ImportError, Exception) only print, and insert_image_metadata itself
\* returns None on failure.
MetadataEscapes(env) == FALSE

\* FallsBack with a failed upload not leading to the local write.
FallsBack_url_only(env) == env.url = "raise"

\* The outer `except Exception` of upload_image is entered: upload or
\* get_public_url raised.
FallsBack(env) == ~env.upload \/ env.url = "raise" \/ MetadataEscapes(env)

\* MetadataCalled with the insert made whether or not the upload and the URL
\* lookup worked.
MetadataCalled_regardless(env) == env.meta # "import_fails"

\* insert_image_metadata is called: the URL is truthy and the import worked.
MetadataCalled(env) ==
    env.upload /\ env.url = "url" /\ env.meta # "import_fails"

UploadCalls(folder, filename, r, env) ==
    LET storage_path == StoragePath(folder, filename)
    IN  EnsureFolderCalls(folder, env)
          \o <<Call("storage_upload", storage_path, Res(env.upload))>>
          \o (IF env.upload
                THEN <<Call("get_public_url", storage_path, Res(env.url # "raise"))>>
                ELSE <<>>)
          \o (IF MetadataCalled(env)
                THEN <<Call("metadata_insert",
                            MetadataRecord(filename, storage_path,
                                           PublicUrl(storage_path), r),
                            Res(env.meta = "ok"))>>
                ELSE <<>>)

\* The `except Exception` clauses of the two endpoints, by entry point.
EndpointError(ep, msg) ==
    IF ep = "generate" THEN CreateImageError(msg)
    ELSE HTTPError(500, <<"Error editing image: ">> \o msg)

\* upload_image(image_bytes, folder, ...) as the endpoints call it, and the
\* endpoint's return of the result.
upload_image ==
    /\ pc = "persist"
    /\ req.ep \in HttpEndpoints
    /\ \E env \in UploadEnvs :
         LET folder == Folder(req.ep)
             filename == Filename(folder, next_uuid)
             storage_path == StoragePath(folder, filename)
             public_url == IF env.url = "url" THEN PublicUrl(storage_path) ELSE <<>>
         IN  /\ next_uuid' = next_uuid + 1
             /\ calls' = calls \o UploadCalls(folder, filename, req, env)
             /\ bucket' = bucket \cup EnsureFolderObjects(folder, env)
                                 \cup (IF env.upload THEN {storage_path} ELSE {})
             /\ metadata' =
                  IF MetadataCalled(env) /\ env.meta = "ok"
                    THEN metadata \cup {MetadataRecord(filename, storage_path,
                                                       public_url, req)}
                    ELSE metadata
             /\ IF FallsBack(env)
                  THEN IF env.local
                         THEN /\ local_files' = local_files \cup {LocalPath(folder, filename)}
                              /\ resp' = HTTPResult(TRUE, filename,
                                                     LocalUrl(folder, filename))
                              /\ pc' = "done"
                              /\ UNCHANGED cause
                         ELSE /\ cause' = Cause("local_write", IoErrText)
                              /\ resp' = EndpointError(req.ep, IoErrText)
                              /\ pc' = "failed"
                              /\ UNCHANGED local_files
                  ELSE /\ resp' = HTTPResult(TRUE, filename, public_url)
                       /\ pc' = "done"
                       /\ UNCHANGED <<local_files, cause>>
    /\ UNCHANGED <<req, flightVars, genVars, tempVars>>

(***************************************************************************)
(* app/openai_api.py: the file-based pipelines                             *)
(***************************************************************************)

FileEndpoints == {"ad_image", "ref_style", "modify", "multi_ref", "mask_edit"}

AdTexts == {"", "SALE"}

\* The mask argument of edit_image_with_mask: absent, or an image of a PIL
\* mode, or bytes that do not decode.
MaskKinds == {"none", "L", "RGBA", "RGB", "corrupt"}

\* Most pixels a mask image has.
MaxPixels == 2

\* Values of one 8-bit channel.
Levels == {0, 128, 255}

\* The pixels an image of a PIL mode may hold: one tuple of channels each.
ModePixels(mode) ==
    CASE mode = "L"    -> { <<l>> : l \in Levels }
      [] mode = "RGB"  -> { <<255, 255, 255>>, <<0, 128, 0>> }
      [] mode = "RGBA" -> { <<255, 0, 0, 0>>, <<0, 0, 0, 255>>, <<0, 128, 255, 128>> }
      [] OTHER         -> {}

\* The mask_data a caller may pass: nothing, bytes that do not decode, or an
\* image of a mode with its pixels.
MaskInputs ==
    { [mode |-> "none", pixels |-> <<>>], [mode |-> "corrupt", pixels |-> <<>>] }
      \cup UNION { { [mode |-> mode, pixels |-> px] :
                       px \in UNION { [1..n -> ModePixels(mode)] : n \in 1..MaxPixels } } :
                     mode \in {"L", "RGB", "RGBA"} }

\* Image.convert("RGBA") on one pixel: grey is copied to the three colour
\* channels, and a mode without alpha becomes fully opaque.
ConvertRGBA(mode, px) ==
    CASE mode = "L"    -> <<px[1], px[1], px[1], 255>>
      [] mode = "RGB"  -> <<px[1], px[2], px[3], 255>>
      [] mode = "RGBA" -> px

\* PutAlpha with the alpha channel left as convert("RGBA") made it.
PutAlpha_kept(px, alpha) == px

\* Image.putalpha(band) on one pixel: the alpha channel is replaced.
PutAlpha(px, alpha) == <<px[1], px[2], px[3], alpha>>

\* mask_rgba: the mask as it is saved to mask_buffer.
MaskRGBA(mode, pixels) ==
    [i \in 1..Len(pixels) |->
        IF mode # "RGBA"
          THEN IF mode = "L"
                 THEN PutAlpha(ConvertRGBA(mode, pixels[i]), pixels[i][1])
                 ELSE ConvertRGBA(mode, pixels[i])
          ELSE pixels[i]]

FileRequests ==
    [ep : {"ad_image"}, size : {"1024x1024"}, background : {"auto"},
     quality : {"auto"}, output_format : {"png"}, output_compression : {<<>>},
     images : {<<>>}, mask : {"none"}, mask_pixels : {<<>>}, ad_text : AdTexts]
    \cup
    [ep : {"ref_style", "modify"}, size : {"1024x1024"}, background : {"auto"},
     quality : {"auto"}, output_format : {"png"}, output_compression : {<<>>},
     images : [1..1 -> ImageKinds], mask : {"none"}, mask_pixels : {<<>>}, ad_text : AdTexts]
    \cup
    [ep : {"multi_ref"}, size : {"1024x1024"}, background : {"auto"},
     quality : {"auto"}, output_format : {"png"}, output_compression : {<<>>},
     images : ImageSeqs(0), mask : {"none"}, mask_pixels : {<<>>}, ad_text : AdTexts]
    \cup
    { [ep |-> "mask_edit", size |-> "1024x1024", background |-> "auto",
       quality |-> "auto", output_format |-> "png", output_compression |-> <<>>,
       images |-> im, mask |-> m.mode, mask_pixels |-> m.pixels, ad_text |-> a] :
      im \in [1..1 -> ImageKinds], m \in MaskInputs, a \in AdTexts }

\* TempInputPath with one fixed name for every request.
TempInputPath_fixed(u) == <<"static/temp_input", ".png">>

\* f"static/temp_input_{uuid.uuid4()}.png"
TempInputPath(u) == <<"static/temp_input_", ToString(u), ".png">>

\* f"static/temp_mask_{uuid.uuid4()}.png"
TempMaskPath(u) == <<"static/temp_mask_", ToString(u), ".png">>

\* with open(path, "wb") as f: f.write(data)
\*   ok: the file holds the data; open_fails: no file appears;
\*   write_fails: the file exists when the error is raised.
WriteOutcomes == {"ok", "open_fails", "write_fails"}

\* The files a write leaves on disk.
Written(path, w) == IF w = "open_fails" THEN {} ELSE {path}

\* f"{prompt}. Include the following text in the ad: '{ad_text}'"
AdTextPrompt(prompt, ad_text) ==
    IF ad_text # ""
      THEN prompt \o <<". Include the following text in the ad: '", ad_text, "'">>
      ELSE prompt

\* The keyword arguments of the calls app/openai_api.py makes to the image model.
FileCallParams(r, prompt, quality) ==
    [model |-> "gpt-image-1", prompt |-> prompt, n |-> 1, size |-> r.size,
     quality |-> quality]

\* The `except Exception as e: raise Exception(f"...: {str(e)}")` of each pipeline.
Wrap(ep, msg) ==
    CASE ep = "modify"    -> <<"Error modifying image: ">> \o msg
      [] ep = "multi_ref" -> <<"Error generating image with multiple references: ">> \o msg
      [] ep = "mask_edit" -> <<"Error editing image: ">> \o msg
      [] OTHER            -> msg

Exc(ep, msg) == [kind |-> "exception", msg |-> Wrap(ep, msg)]
Ret(filename, prompt) ==
    [kind |-> "return", filename |-> filename,
     url |-> <<"/static/generated/">> \o filename, prompt |-> prompt]

\* f"{prefix}_{uuid.uuid4()}.png"
OutputName(prefix, u) == <<prefix, "_", ToString(u), ".png">>

OutputPrefix(ep) ==
    CASE ep = "ad_image"  -> "generated_ad"
      [] ep = "ref_style" -> "reference_style_ad"
      [] ep = "modify"    -> "modified_ad"
      [] ep = "multi_ref" -> "composite_ad"
      [] ep = "mask_edit" -> "edited_ad"

\* The files the finally block removes when os.remove raises at the k-th
\* path (k = 0: it never raises): the paths before it that exist.
FinallyRemoved(paths, on_disk, k) ==
    { paths[i] : i \in { j \in 1..Len(paths) :
                           (k = 0 \/ j < k) /\ paths[j] \in on_disk } }

\* The image model call of a pipeline with a try/finally, and the read of
\* response.data[0].
FileCall(ep, op, params) ==
    /\ pc = "generate"
    /\ req.ep = ep
    /\ \E o \in ImageOutcomes :
         /\ calls' = Append(calls, Call(op, params, o[1]))
         /\ CASE o[1] = "data" ->
                   /\ pc' = "persist"
                   /\ UNCHANGED <<pending, cause>>
              [] o[1] = "nodata" ->
                   /\ pc' = "cleanup"
                   /\ cause' = Cause("no_data", IoErrText)
                   /\ pending' = Exc(ep, IoErrText)
              [] o[1] = "error" ->
                   /\ pc' = "cleanup"
                   /\ cause' = Cause(op, o[2])
                   /\ pending' = Exc(ep, o[2])
    /\ UNCHANGED <<req, flightVars, genVars, resp, temp_input_paths, disk, created, deleted,
                   remove_failed, storeVars, next_uuid>>

\* The write of the result under static/generated/, then the return statement.
FileWrite(ep) ==
    /\ pc = "persist"
    /\ req.ep = ep
    /\ \E w \in WriteOutcomes :
         LET filename == OutputName(OutputPrefix(ep), next_uuid)
             path == <<"static/generated/">> \o filename
         IN  /\ next_uuid' = next_uuid + 1
             /\ local_files' = local_files \cup Written(path, w)
             /\ IF w = "ok"
                  THEN /\ pending' = Ret(filename, enhanced_prompt)
                       /\ UNCHANGED cause
                  ELSE /\ pending' = Exc(ep, IoErrText)
                       /\ cause' = Cause("local_write", IoErrText)
    /\ pc' = "cleanup"
    /\ UNCHANGED <<req, flightVars, genVars, calls, resp, temp_input_paths, disk, created,
                   deleted, remove_failed, bucket, metadata>>

\* The finally block: each temporary path that exists is removed, in order;
\* an os.remove that raises ends the block and replaces what was travelling.
Finally(ep) ==
    /\ pc = "cleanup"
    /\ req.ep = ep
    /\ \E k \in 0..Len(temp_input_paths) :
         /\ k # 0 => temp_input_paths[k] \in disk
         /\ LET removed == FinallyRemoved(temp_input_paths, disk, k)
            IN  /\ disk' = disk \ removed
                /\ deleted' = deleted \cup removed
         /\ IF k # 0
              THEN /\ remove_failed' = remove_failed \cup {temp_input_paths[k]}
                   /\ resp' = Raised(IoErrText)
                   /\ cause' = IF cause = NoCause THEN Cause("remove", IoErrText)
                               ELSE cause
                   /\ pc' = "failed"
              ELSE /\ UNCHANGED <<remove_failed, cause>>
                   /\ IF pending.kind = "exception"
                        THEN /\ resp' = Raised(pending.msg)
                             /\ pc' = "failed"
                        ELSE /\ resp' = Returned(pending.filename, pending.url,
                                                 pending.prompt)
                             /\ pc' = "done"
    /\ UNCHANGED <<req, flightVars, genVars, calls, temp_input_paths, created, pending,
                   storeVars, next_uuid>>

\* ---- generate_ad_image ----

\* The prompt, with the ad text when one is given.
generate_ad_image_compose ==
    /\ pc = "prepare"
    /\ req.ep = "ad_image"
    /\ enhanced_prompt' = AdTextPrompt(BasePrompt, req.ad_text)
    /\ pc' = "generate"
    /\ UNCHANGED <<req, flightVars, idx, style_descriptions, analysis, calls, cause, resp,
                   tempVars, storeVars, next_uuid>>

\* The image model call and the read of response.data[0] of a function
\* without a try block: a failure reaches the caller as it is.
BareCall(ep) ==
    /\ pc = "generate"
    /\ req.ep = ep
    /\ \E o \in ImageOutcomes :
         /\ calls' = Append(calls, Call("generate",
                                        FileCallParams(req, enhanced_prompt, "high"),
                                        o[1]))
         /\ CASE o[1] = "data" ->
                   /\ pc' = "persist"
                   /\ UNCHANGED <<resp, cause>>
              [] o[1] = "nodata" ->
                   /\ pc' = "failed"
                   /\ cause' = Cause("no_data", IoErrText)
                   /\ resp' = Raised(IoErrText)
              [] o[1] = "error" ->
                   /\ pc' = "failed"
                   /\ cause' = Cause("generate", o[2])
                   /\ resp' = Raised(o[2])
    /\ UNCHANGED <<req, flightVars, genVars, tempVars, storeVars, next_uuid>>

\* The write of static/generated/<prefix>_<uuid>.png and the return, outside
\* any try block.  returns_prompt: the dict carries the "prompt" key.
BareWrite(ep, returns_prompt) ==
    /\ pc = "persist"
    /\ req.ep = ep
    /\ \E w \in WriteOutcomes :
         LET filename == OutputName(OutputPrefix(ep), next_uuid)
             path == <<"static/generated/">> \o filename
         IN  /\ next_uuid' = next_uuid + 1
             /\ local_files' = local_files \cup Written(path, w)
             /\ IF w = "ok"
                  THEN /\ resp' = Returned(filename, <<"/static/generated/">> \o filename,
                                           IF returns_prompt THEN enhanced_prompt
                                           ELSE <<>>)
                       /\ pc' = "done"
                       /\ UNCHANGED cause
                  ELSE /\ resp' = Raised(IoErrText)
                       /\ cause' = Cause("local_write", IoErrText)
                       /\ pc' = "failed"
    /\ UNCHANGED <<req, flightVars, genVars, calls, tempVars, bucket, metadata>>

generate_ad_image_call == BareCall("ad_image")

generate_ad_image_write == BareWrite("ad_image", FALSE)

\* ---- modify_image ----

\* modify_image_analyze with a failing analysis raised to the caller.
modify_image_analyze_strict ==
    /\ pc = "prepare"
    /\ req.ep = "modify"
    /\ \/ \E d \in Descs :
            /\ calls' = Append(calls, Call("vision", 1, "ok"))
            /\ analysis' = <<d>>
            /\ pc' = "temp"
            /\ UNCHANGED <<cause, resp>>
       \/ \E e \in ErrTexts :
            /\ calls' = Append(calls, Call("vision", 1, "error"))
            /\ cause' = Cause("vision", e)
            /\ resp' = Raised(e)
            /\ pc' = "failed"
            /\ UNCHANGED analysis
    /\ UNCHANGED <<req, flightVars, idx, style_descriptions, enhanced_prompt,
                   tempVars, storeVars, next_uuid>>

\* analyze_image_content, whose failure is replaced by a fixed text.
modify_image_analyze ==
    /\ pc = "prepare"
    /\ req.ep = "modify"
    /\ \/ \E d \in Descs :
            /\ calls' = Append(calls, Call("vision", 1, "ok"))
            /\ analysis' = <<d>>
       \/ /\ calls' = Append(calls, Call("vision", 1, "error"))
          /\ analysis' = <<"Unable to analyze image content">>
    /\ pc' = "temp"
    /\ UNCHANGED <<req, flightVars, idx, style_descriptions, enhanced_prompt, cause, resp,
                   tempVars, storeVars, next_uuid>>

ModifyPrompt(image_analysis, ad_text) ==
    AdTextPrompt(<<"Image content: ">> \o image_analysis
                   \o <<". Modification request: ">> \o BasePrompt, ad_text)

\* The temporary copy of the input, its decoding, and the prompt.
modify_image_temp ==
    /\ pc = "temp"
    /\ req.ep = "modify"
    /\ \E w \in WriteOutcomes :
         LET path == TempInputPath(next_uuid)
         IN  /\ next_uuid' = next_uuid + 1
             /\ temp_input_paths' = <<path>>
             /\ disk' = disk \cup Written(path, w)
             /\ created' = created \cup Written(path, w)
             /\ IF w # "ok"
                  THEN /\ pending' = Exc("modify", IoErrText)
                       /\ cause' = Cause("temp_write", IoErrText)
                       /\ pc' = "cleanup"
                       /\ UNCHANGED enhanced_prompt
                  ELSE IF req.images[1] = "corrupt"
                    THEN /\ pending' = Exc("modify", IoErrText)
                         /\ cause' = Cause("decode", IoErrText)
                         /\ pc' = "cleanup"
                         /\ UNCHANGED enhanced_prompt
                    ELSE /\ enhanced_prompt' = ModifyPrompt(analysis, req.ad_text)
                         /\ pc' = "generate"
                         /\ UNCHANGED <<pending, cause>>
    /\ UNCHANGED <<req, flightVars, idx, style_descriptions, analysis, calls, resp, deleted,
                   remove_failed, storeVars>>

modify_image_call ==
    FileCall("modify", "generate", FileCallParams(req, enhanced_prompt, "high"))

modify_image_write == FileWrite("modify")

modify_image_finally == Finally("modify")

\* ---- generate_with_reference_image ----

\* f"{prompt}. Style hint: {style_description}" and the ad text of this function.
ReferencePrompt(style_description, ad_text) ==
    BasePrompt \o <<". Style hint: ">> \o style_description
      \o (IF ad_text # ""
            THEN <<". Include the following text: '", ad_text, "'">>
            ELSE <<>>)

\* generate_with_reference_image_style with the vision failure raised to the
\* caller instead of replaced by an empty description.
generate_with_reference_image_style_strict ==
    /\ pc = "prepare"
    /\ req.ep = "ref_style"
    /\ IF req.images[1] = "corrupt"
         THEN /\ cause' = Cause("decode", IoErrText)
              /\ resp' = Raised(IoErrText)
              /\ pc' = "failed"
              /\ UNCHANGED <<calls, enhanced_prompt, style_descriptions>>
         ELSE \/ \E d \in Descs :
                   /\ calls' = Append(calls, Call("vision", 1, "ok"))
                   /\ style_descriptions' = <<d>>
                   /\ enhanced_prompt' = BasePrompt \o <<". Style hint: ">> \o <<d>>
                   /\ pc' = "generate"
                   /\ UNCHANGED <<cause, resp>>
              \/ \E e \in ErrTexts :
                   /\ calls' = Append(calls, Call("vision", 1, "error"))
                   /\ cause' = Cause("vision", e)
                   /\ resp' = Raised(e)
                   /\ pc' = "failed"
                   /\ UNCHANGED <<enhanced_prompt, style_descriptions>>
    /\ UNCHANGED <<req, flightVars, idx, analysis, tempVars, storeVars, next_uuid>>

\* The decoding of the reference image, then the vision call, whose failure
\* leaves an empty style description.
generate_with_reference_image_style ==
    /\ pc = "prepare"
    /\ req.ep = "ref_style"
    /\ IF req.images[1] = "corrupt"
         THEN /\ cause' = Cause("decode", IoErrText)
              /\ resp' = Raised(IoErrText)
              /\ pc' = "failed"
              /\ UNCHANGED <<calls, enhanced_prompt, style_descriptions>>
         ELSE /\ \/ \E d \in Descs :
                      /\ calls' = Append(calls, Call("vision", 1, "ok"))
                      /\ style_descriptions' = <<d>>
                 \/ /\ calls' = Append(calls, Call("vision", 1, "error"))
                    /\ style_descriptions' = <<>>
              /\ enhanced_prompt' = ReferencePrompt(style_descriptions', req.ad_text)
              /\ pc' = "generate"
              /\ UNCHANGED <<cause, resp>>
    /\ UNCHANGED <<req, flightVars, idx, analysis, tempVars, storeVars, next_uuid>>

\* client.images.generate(...) and the read of response.data[0]; nothing
\* catches a failure here.
generate_with_reference_image_call ==
    /\ pc = "generate"
    /\ req.ep = "ref_style"
    /\ \E o \in ImageOutcomes :
         /\ calls' = Append(calls, Call("generate",
                                        FileCallParams(req, enhanced_prompt, "high"),
                                        o[1]))
         /\ CASE o[1] = "data" ->
                   /\ pc' = "persist"
                   /\ UNCHANGED <<resp, cause>>
              [] o[1] = "nodata" ->
                   /\ pc' = "failed"
                   /\ cause' = Cause("no_data", IoErrText)
                   /\ resp' = Raised(IoErrText)
              [] o[1] = "error" ->
                   /\ pc' = "failed"
                   /\ cause' = Cause("generate", o[2])
                   /\ resp' = Raised(o[2])
    /\ UNCHANGED <<req, flightVars, genVars, tempVars, storeVars, next_uuid>>

\* The write of static/generated/reference_style_ad_<uuid>.png and the return.
generate_with_reference_image_write ==
    /\ pc = "persist"
    /\ req.ep = "ref_style"
    /\ \E w \in WriteOutcomes :
         LET filename == OutputName(OutputPrefix("ref_style"), next_uuid)
             path == <<"static/generated/">> \o filename
         IN  /\ next_uuid' = next_uuid + 1
             /\ local_files' = local_files \cup Written(path, w)
             /\ IF w = "ok"
                  THEN /\ resp' = Returned(filename, <<"/static/generated/">> \o filename,
                                           enhanced_prompt)
                       /\ pc' = "done"
                       /\ UNCHANGED cause
                  ELSE /\ resp' = Raised(IoErrText)
                       /\ cause' = Cause("local_write", IoErrText)
                       /\ pc' = "failed"
    /\ UNCHANGED <<req, flightVars, genVars, calls, tempVars, bucket, metadata>>

\* ---- generate_with_multiple_references ----

\* generate_with_multiple_references_reference with an image that does not
\* decode skipped instead of raised.
generate_with_multiple_references_reference_skipping ==
    /\ pc = "prepare"
    /\ req.ep = "multi_ref"
    /\ idx <= Len(req.images)
    /\ \E w \in WriteOutcomes :
         LET path == TempInputPath(next_uuid)
         IN  /\ next_uuid' = next_uuid + 1
             /\ temp_input_paths' = Append(temp_input_paths, path)
             /\ disk' = disk \cup Written(path, w)
             /\ created' = created \cup Written(path, w)
             /\ IF w # "ok"
                  THEN /\ pending' = Exc("multi_ref", IoErrText)
                       /\ cause' = Cause("temp_write", IoErrText)
                       /\ pc' = "cleanup"
                       /\ UNCHANGED idx
                  ELSE /\ idx' = idx + 1
                       /\ cause' = IF req.images[idx] = "corrupt" /\ cause = NoCause
                                     THEN Cause("decode", IoErrText) ELSE cause
                       /\ UNCHANGED <<pending, pc>>
    /\ UNCHANGED <<req, flightVars, style_descriptions, enhanced_prompt, analysis, calls, resp,
                   deleted, remove_failed, storeVars>>

\* One turn of the loop: the path is recorded, the bytes are written to it,
\* the file is decoded.
generate_with_multiple_references_reference ==
    /\ pc = "prepare"
    /\ req.ep = "multi_ref"
    /\ idx <= Len(req.images)
    /\ \E w \in WriteOutcomes :
         LET path == TempInputPath(next_uuid)
         IN  /\ next_uuid' = next_uuid + 1
             /\ temp_input_paths' = Append(temp_input_paths, path)
             /\ disk' = disk \cup Written(path, w)
             /\ created' = created \cup Written(path, w)
             /\ IF w # "ok"
                  THEN /\ pending' = Exc("multi_ref", IoErrText)
                       /\ cause' = Cause("temp_write", IoErrText)
                       /\ pc' = "cleanup"
                       /\ UNCHANGED idx
                  ELSE IF req.images[idx] = "corrupt"
                    THEN /\ pending' = Exc("multi_ref", IoErrText)
                         /\ cause' = Cause("decode", IoErrText)
                         /\ pc' = "cleanup"
                         /\ UNCHANGED idx
                    ELSE /\ idx' = idx + 1
                         /\ UNCHANGED <<pending, cause, pc>>
    /\ UNCHANGED <<req, flightVars, style_descriptions, enhanced_prompt, analysis, calls, resp,
                   deleted, remove_failed, storeVars>>

generate_with_multiple_references_compose ==
    /\ pc = "prepare"
    /\ req.ep = "multi_ref"
    /\ idx > Len(req.images)
    /\ enhanced_prompt' = AdTextPrompt(BasePrompt, req.ad_text)
    /\ pc' = "generate"
    /\ UNCHANGED <<req, flightVars, idx, style_descriptions, analysis, calls, cause, resp,
                   tempVars, storeVars, next_uuid>>

\* The keyword arguments of the edit calls of app/openai_api.py.
FileEditKeys(with_mask) ==
    {"model", "image", "prompt", "n", "size", "quality"}
      \cup (IF with_mask THEN {"mask"} ELSE {})

FileEditParams(r, image, prompt, with_mask) ==
    [k \in FileEditKeys(with_mask) |->
        CASE k = "model" -> "gpt-image-1"
          [] k = "image" -> image
          [] k = "mask" -> MaskRGBA(r.mask, r.mask_pixels)
          [] k = "prompt" -> prompt
          [] k = "n" -> 1
          [] k = "size" -> r.size
          [] k = "quality" -> "standard"]

generate_with_multiple_references_call ==
    FileCall("multi_ref", "edit",
             FileEditParams(req, req.images, enhanced_prompt, FALSE))

generate_with_multiple_references_write == FileWrite("multi_ref")

generate_with_multiple_references_finally == Finally("multi_ref")

\* ---- edit_image_with_mask ----

\* Both temporary names are drawn first; then the input is written and
\* decoded, the mask (when given) written and opened, the prompt composed.
edit_image_with_mask_prepare ==
    /\ pc = "prepare"
    /\ req.ep = "mask_edit"
    /\ \E w1 \in WriteOutcomes, w2 \in WriteOutcomes :
         LET has_mask == req.mask # "none"
             temp_input_path == TempInputPath(next_uuid)
             temp_mask_path == TempMaskPath(next_uuid + 1)
             input_ok == w1 = "ok" /\ req.images[1] = "ok"
             files == Written(temp_input_path, w1)
                        \cup (IF input_ok /\ has_mask
                                THEN Written(temp_mask_path, w2) ELSE {})
             mask_ok == ~has_mask \/ (w2 = "ok" /\ req.mask # "corrupt")
         IN  /\ next_uuid' = next_uuid + (IF has_mask THEN 2 ELSE 1)
             /\ temp_input_paths' = IF has_mask
                                      THEN <<temp_input_path, temp_mask_path>>
                                      ELSE <<temp_input_path>>
             /\ disk' = disk \cup files
             /\ created' = created \cup files
             /\ IF input_ok /\ mask_ok
                  THEN /\ enhanced_prompt' = AdTextPrompt(BasePrompt, req.ad_text)
                       /\ pc' = "generate"
                       /\ UNCHANGED <<pending, cause>>
                  ELSE /\ pending' = Exc("mask_edit", IoErrText)
                       /\ cause' = Cause(IF w1 # "ok" \/ (input_ok /\ w2 # "ok")
                                           THEN "temp_write" ELSE "decode",
                                         IoErrText)
                       /\ pc' = "cleanup"
                       /\ UNCHANGED enhanced_prompt
    /\ UNCHANGED <<req, flightVars, idx, style_descriptions, analysis, calls, resp, deleted,
                   remove_failed, storeVars>>

edit_image_with_mask_call ==
    FileCall("mask_edit", "edit",
             FileEditParams(req, req.images[1], enhanced_prompt, req.mask # "none"))

edit_image_with_mask_write == FileWrite("mask_edit")

edit_image_with_mask_finally == Finally("mask_edit")

(***************************************************************************)
(* The service                                                             *)
(***************************************************************************)

Requests == HttpRequests \cup FileRequests

Init ==
    /\ req \in Requests
    /\ pc = IF req.ep \in HttpEndpoints THEN "validate" ELSE "prepare"
    /\ idx = 1
    /\ style_descriptions = <<>>
    /\ enhanced_prompt = <<>>
    /\ analysis = <<>>
    /\ calls = <<>>
    /\ cause = NoCause
    /\ resp = NoResp
    /\ temp_input_paths = <<>>
    /\ disk = {}
    /\ created = {}
    /\ deleted = {}
    /\ remove_failed = {}
    /\ pending = NoExc
    /\ bucket = {}
    /\ local_files = {}
    /\ metadata = {}
    /\ next_uuid = 1
    /\ inflight = <<>>
    /\ temp_dir = {}
    /\ uuid_source = 1
    /\ clobbered = {}

Next ==
    \/ create_image_validate
    \/ generate_image_reference
    \/ generate_image_compose
    \/ generate_image_call
    \/ edit_image_endpoint_validate
    \/ edit_image_prepare
    \/ edit_image_call
    \/ upload_image
    \/ generate_ad_image_compose
    \/ generate_ad_image_call
    \/ generate_ad_image_write
    \/ modify_image_analyze
    \/ modify_image_temp
    \/ modify_image_call
    \/ modify_image_write
    \/ modify_image_finally
    \/ generate_with_reference_image_style
    \/ generate_with_reference_image_call
    \/ generate_with_reference_image_write
    \/ generate_with_multiple_references_reference
    \/ generate_with_multiple_references_compose
    \/ generate_with_multiple_references_call
    \/ generate_with_multiple_references_write
    \/ generate_with_multiple_references_finally
    \/ edit_image_with_mask_prepare
    \/ edit_image_with_mask_call
    \/ edit_image_with_mask_write
    \/ edit_image_with_mask_finally

Spec == Init /\ [][Next]_vars

\* Every handler is run to its end: a step that can be taken is taken, and
\* every collaborator call returns or fails.
FairSpec == Spec /\ WF_vars(Next)

(***************************************************************************)
(* Several requests of app/openai_api.py in flight                         *)
(*                                                                         *)
(* The functions that keep temporary files (modify_image,                  *)
(* generate_with_multiple_references, edit_image_with_mask) run side by    *)
(* side on one disk, interleaved statement by statement.  Only the         *)
(* statements that name, write and remove temporary files are followed.    *)
(***************************************************************************)

\* Most requests in flight at once.
MaxInFlight == 2

InFlight == 1..MaxInFlight

\* A request in flight: its function and the number of temporary files it
\* is to write (one input; one per reference image; the input and a mask).
FlightRequests ==
    [ep : {"modify"}, n : {1}]
      \cup [ep : {"multi_ref"}, n : {MaxRefs}]
      \cup [ep : {"mask_edit"}, n : {1, 2}]

\* The state of the one request followed alone, untouched here.
soloVars == <<req, pc, idx, style_descriptions, enhanced_prompt, analysis, calls,
              cause, resp, temp_input_paths, disk, created, deleted, remove_failed,
              pending, bucket, local_files, metadata, next_uuid>>

\* The names a request draws at one point: edit_image_with_mask draws the
\* input and the mask name together, the others one input name at a time.
DrawnPaths(r, u) ==
    IF r.ep = "mask_edit" /\ r.n = 2
      THEN <<TempInputPath(u), TempMaskPath(u + 1)>>
      ELSE <<TempInputPath(u)>>

\* temp_path = f"static/temp_input_{uuid.uuid4()}.png" (and the mask name).
flight_name(p) ==
    /\ inflight[p].at = "name"
    /\ LET drawn == DrawnPaths(inflight[p], uuid_source)
       IN  /\ inflight' = [inflight EXCEPT ![p].paths = @ \o drawn, ![p].at = "write"]
           /\ uuid_source' = uuid_source + Len(drawn)
    /\ UNCHANGED <<temp_dir, clobbered, soloVars>>

\* with open(temp_path, "wb") as f: f.write(data): the file at that path now
\* holds this request's bytes, whoever wrote it before.
flight_write(p) ==
    /\ inflight[p].at = "write"
    /\ LET r == inflight[p]
           path == r.paths[r.written + 1]
           others == { f \in temp_dir : f.path = path /\ f.owner # p }
           more == r.written + 1 < r.n
       IN  /\ temp_dir' = { f \in temp_dir : f.path # path }
                            \cup {[path |-> path, owner |-> p]}
           /\ clobbered' = IF others # {} THEN clobbered \cup {path} ELSE clobbered
           /\ inflight' = [inflight EXCEPT
                 ![p].written = @ + 1,
                 ![p].at = IF ~more THEN "body"
                           ELSE IF r.ep = "multi_ref" THEN "name" ELSE "write"]
    /\ UNCHANGED <<uuid_source, soloVars>>

\* The rest of the try block, or an exception at any statement of it: either
\* way the finally block is next.
flight_body(p) ==
    /\ inflight[p].at \in {"write", "body"}
    /\ inflight' = [inflight EXCEPT ![p].at = "cleanup"]
    /\ UNCHANGED <<temp_dir, uuid_source, clobbered, soloVars>>

\* One path of the finally block: if os.path.exists(path): os.remove(path);
\* after the last path the function is left.
flight_remove(p) ==
    /\ inflight[p].at = "cleanup"
    /\ LET r == inflight[p]
           path == r.paths[r.removed + 1]
           others == { f \in temp_dir : f.path = path /\ f.owner # p
                                        /\ inflight[f.owner].at # "done" }
       IN  /\ temp_dir' = { f \in temp_dir : f.path # path }
           /\ clobbered' = IF others # {} THEN clobbered \cup {path} ELSE clobbered
           /\ inflight' = [inflight EXCEPT
                 ![p].removed = @ + 1,
                 ![p].at = IF r.removed + 1 = Len(r.paths) THEN "done" ELSE "cleanup"]
    /\ UNCHANGED <<uuid_source, soloVars>>

FlightInit ==
    /\ inflight \in [InFlight -> { [ep |-> r.ep, n |-> r.n, at |-> "name",
                                    paths |-> <<>>, written |-> 0, removed |-> 0] :
                                   r \in FlightRequests }]
    /\ temp_dir = {}
    /\ uuid_source = 1
    /\ clobbered = {}
    /\ req = [ep |-> "none"]
    /\ pc = "none"
    /\ idx = 1
    /\ style_descriptions = <<>>
    /\ enhanced_prompt = <<>>
    /\ analysis = <<>>
    /\ calls = <<>>
    /\ cause = NoCause
    /\ resp = NoResp
    /\ temp_input_paths = <<>>
    /\ disk = {}
    /\ created = {}
    /\ deleted = {}
    /\ remove_failed = {}
    /\ pending = NoExc
    /\ bucket = {}
    /\ local_files = {}
    /\ metadata = {}
    /\ next_uuid = 1

FlightNext ==
    \E p \in InFlight :
        \/ flight_name(p)
        \/ flight_write(p)
        \/ flight_body(p)
        \/ flight_remove(p)

FlightSpec == FlightInit /\ [][FlightNext]_vars

(***************************************************************************)
(* Properties                                                              *)
(***************************************************************************)

\* The run has ended: the caller holds a response or an exception.
Terminal == pc \in {"done", "failed"}

\* The positions in the call log of the calls to one collaborator operation.
CallsTo(ops) == { i \in DOMAIN calls : calls[i].op \in ops }

ImageModelOps == {"generate", "edit"}
StorageOps == {"storage_list", "storage_upload", "get_public_url", "metadata_insert"}

\* Nothing was written to the object store, the local store or the metadata table.
NothingStored == bucket = {} /\ local_files = {} /\ metadata = {}

ClaimedSizes == {"1024x1024", "1024x1536", "1536x1024", "auto"}

\* C1: a request to the generate or edit entry point whose size is not one of
\* 1024x1024, 1024x1536, 1536x1024, auto is rejected with a client error, and
\* no collaborator (vision model, image model, object storage, metadata
\* store) is ever called for it.
C1_InvalidSizeRejected ==
    (req.ep \in HttpEndpoints /\ req.size \notin ClaimedSizes) =>
        /\ calls = <<>>
        /\ NothingStored
        /\ pc \in {"validate", "failed"}
        /\ pc = "failed" => (resp.kind = "http_error" /\ resp.status \in 400..499)

C1_Witness ==
    /\ req.ep \in HttpEndpoints
    /\ req.size \notin ClaimedSizes
    /\ pc = "failed"
    /\ resp.status = 400
    /\ calls = <<>>

TempPipelines == {"modify", "multi_ref", "mask_edit"}

\* C2: when a run of modify_image, generate_with_multiple_references or
\* edit_image_with_mask exits, by return or by exception, every temporary
\* file it created has been deleted.  A file whose own os.remove raised is
\* not held against the claim: only the files the run could still have
\* removed are.
C2_AllTempFilesDeleted ==
    (req.ep \in TempPipelines /\ Terminal) =>
        /\ (created \ remove_failed) \subseteq deleted
        /\ disk \subseteq remove_failed

\* The part of C2 the code keeps: when no os.remove raises, the files created
\* are exactly the files deleted, whatever step the run failed at.
C2_NoLeakWhenRemoveWorks ==
    (req.ep \in TempPipelines /\ Terminal /\ remove_failed = {}) =>
        (created = deleted /\ disk = {})

\* C3: when the image generation/edit call fails with a text naming quota
\* exhaustion or rate limiting, the caller of the entry point receives a 429,
\* with different messages for the two; any other failure of that call
\* reaches the caller as a 500.
C3_QuotaAndRateLimitAre429 ==
    (req.ep \in HttpEndpoints /\ pc = "failed" /\ cause.op \in ImageModelOps) =>
        LET text == Lower(cause.text)
        IN  IF Contains(text, <<"quota">>)
              THEN resp.status = 429 /\ resp.detail = QuotaDetail
            ELSE IF Contains(text, <<"rate", "limit">>)
              THEN resp.status = 429 /\ resp.detail = RateLimitDetail
            ELSE resp.status = 500

\* A vision call of the run failed.
VisionFailed == \E i \in CallsTo({"vision"}) : calls[i].result = "error"

\* The ad-text segment generate_with_reference_image appends.
ReferenceAdSuffix ==
    IF req.ad_text # ""
      THEN <<". Include the following text: '", req.ad_text, "'">>
      ELSE <<>>

ReferenceFailed(j) ==
    \/ \E i \in CallsTo({"vision"}) : calls[i].arg = j /\ calls[i].result = "error"
    \/ /\ req.images[j] = "corrupt"
       /\ idx > j \/ (idx = j /\ pc \notin {"validate", "prepare"})

ImageUploads == { i \in CallsTo({"storage_upload"}) : calls[i].arg[2] = "/" }

\* The file name in an uploaded path "<folder>/<filename>".
UploadedName(i) == SubSeq(calls[i].arg, 3, Len(calls[i].arg))

\* C6: in upload_image, when the upload to the remote object store fails, the
\* bytes are written to static/<folder>/<filename> and the call returns that
\* filename with the URL /static/<folder>/<filename>; it raises only if the
\* local write fails too.
C6_UploadFailureFallsBackToLocal ==
    \A i \in ImageUploads :
        calls[i].result = "error" =>
            LET folder == calls[i].arg[1]
                filename == UploadedName(i)
                local == <<"static/", folder, "/">> \o filename
            IN  /\ Terminal
                /\ pc = "done" <=> local \in local_files
                /\ pc = "done" =>
                     /\ resp.kind = "http_ok"
                     /\ resp.filename = filename
                     /\ resp.public_url = <<"/static/", folder, "/">> \o filename
                /\ pc = "failed" => resp.kind = "http_error"
                /\ metadata = {}

C6_Witness ==
    /\ pc = "done"
    /\ \E i \in ImageUploads :
         /\ calls[i].result = "error"
         /\ (<<"static/", calls[i].arg[1], "/">> \o UploadedName(i)) \in local_files
         /\ resp.public_url[1] = "/static/"

\* C7: in upload_image, when the remote upload succeeded and the metadata
\* insert fails, the call still returns (filename, remote public URL): no
\* local fallback write is made and the uploaded object stays in the store.
C7_MetadataFailureIsSwallowed ==
    \A i \in CallsTo({"metadata_insert"}) :
        calls[i].result = "error" =>
            LET rec == calls[i].arg
            IN  /\ pc = "done"
                /\ resp.kind = "http_ok"
                /\ resp.filename = rec.image_id
                /\ resp.public_url = rec.public_url
                /\ resp.public_url = <<"https://bucket/">> \o rec.storage_path
                /\ local_files = {}
                /\ rec.storage_path \in bucket
                /\ metadata = {}

C7_Witness ==
    /\ pc = "done"
    /\ resp.kind = "http_ok"
    /\ \E i \in CallsTo({"metadata_insert"}) :
         calls[i].result = "error" /\ calls[i].arg.storage_path \in bucket

\* The phase of a request of the two HTTP entry points.
Phase ==
    CASE pc = "validate" -> "Validating"
      [] pc = "prepare"  -> "Preparing"
      [] pc = "generate" -> "Generating"
      [] pc = "persist"  -> "Persisting"
      [] pc = "done"     -> "Done"
      [] pc = "failed"   -> "Failed"
      [] OTHER           -> "None"

PhaseRank(ph) ==
    CASE ph = "Validating" -> 1
      [] ph = "Preparing"  -> 2
      [] ph = "Generating" -> 3
      [] ph = "Persisting" -> 4
      [] ph = "Done"       -> 5
      [] OTHER             -> 0

\* A step of Validating -> Preparing -> Generating -> Persisting -> Done, with
\* Failed reachable from every phase before Done.
ClaimedPhaseStep ==
    \/ Phase' = Phase
    \/ PhaseRank(Phase) \in 1..4 /\ PhaseRank(Phase') = PhaseRank(Phase) + 1
    \/ PhaseRank(Phase) \in 1..4 /\ Phase' = "Failed"

\* The step the code adds: the image model answered without image data, and
\* the response is returned without a URL and without any write.
NoDataStep ==
    /\ Phase = "Generating"
    /\ Phase' = "Done"
    /\ calls'[Len(calls')].op \in ImageModelOps
    /\ calls'[Len(calls')].result = "nodata"
    /\ UNCHANGED storeVars
    /\ resp'.kind = "http_ok" /\ ~resp'.data /\ resp'.public_url = <<>>

\* What has happened by each phase.
PhaseOrder ==
    /\ Phase \in {"Validating", "Preparing", "Generating"} =>
          (CallsTo(ImageModelOps \cup StorageOps) = {} /\ NothingStored)
    /\ Phase = "Validating" => calls = <<>>
    /\ (CallsTo(StorageOps) # {} \/ ~NothingStored) =>
          \E i \in CallsTo(ImageModelOps) :
              /\ calls[i].result = "data"
              /\ \A j \in CallsTo(StorageOps) : i < j
    /\ (Phase = "Done" /\ resp.data) =>
          (CallsTo(StorageOps) # {} /\ (bucket # {} \/ local_files # {}))

\* Nothing is called or written for a request that has failed.
FailedStays == pc = "failed" => (pc' = "failed" /\ calls' = calls /\ UNCHANGED storeVars)

\* C8 (as amended): a request of the generate or edit entry point moves
\* through Validating, Preparing, Generating, Persisting, Done in that order,
\* never backwards; it skips Persisting only when the image model answered
\* without image data (then nothing is written); no image model call happens
\* before validation passed, no storage or metadata write before the image
\* model call returned with data, and nothing is called or written after
\* Failed.
C8_PhasesInOrder ==
    /\ [](req.ep \in HttpEndpoints => PhaseOrder)
    /\ [][req.ep \in HttpEndpoints =>
            ((ClaimedPhaseStep \/ NoDataStep) /\ FailedStays)]_vars

C8_Witness ==
    /\ req.ep \in HttpEndpoints
    /\ pc = "done"
    /\ resp.data
    /\ bucket # {}
    /\ metadata # {}

\* C8 (as claimed): the same, with Done reached only from Persisting.
C8_NoPhaseSkipped ==
    /\ [](req.ep \in HttpEndpoints => PhaseOrder)
    /\ [][req.ep \in HttpEndpoints => (ClaimedPhaseStep /\ FailedStays)]_vars

ClaimedBackgrounds == {"transparent", "opaque", "auto"}
ClaimedQualities == {"standard", "low", "medium", "high", "auto"}
ClaimedFormats == {"png", "jpeg", "webp"}

\* C9: on the generate and the edit entry point alike, a request whose
\* background, quality or output format is outside its enumeration is
\* rejected before any collaborator is called.
C9_EnumsRejectedBeforeAnyCall ==
    ( /\ req.ep \in HttpEndpoints
      /\ \/ req.background \notin ClaimedBackgrounds
         \/ req.quality \notin ClaimedQualities
         \/ req.output_format \notin ClaimedFormats ) =>
        /\ calls = <<>>
        /\ pc \in {"validate", "failed"}
        /\ pc = "failed" => resp.status \in 400..499

\* C10: a request carrying an image that does not decode is answered with a
\* client error before any collaborator is called for it, also when the
\* image is not the first of several reference images.
C10_CorruptImageRejectedFirst ==
    ( /\ req.ep = "generate"
      /\ \E j \in 1..Len(req.images) : req.images[j] = "corrupt" ) =>
        /\ calls = <<>>
        /\ Terminal => (pc = "failed" /\ resp.status \in 400..499)

\* C11: a failure to delete a temporary file in the cleanup is never
\* propagated: a run that was about to return still returns, a run that was
\* about to raise still raises its own error, and the other temporary files of
\* the run are deleted all the same.
C11_RemoveFailureNeverPropagated ==
    (req.ep \in TempPipelines /\ Terminal /\ remove_failed # {}) =>
        /\ pending.kind = "return" => (pc = "done" /\ resp.kind = "return")
        /\ pending.kind = "exception" =>
             (resp.kind = "exception" /\ resp.detail = pending.msg)
        /\ (created \ remove_failed) \subseteq deleted

\* A reference image of a generate_with_multiple_references run was written
\* to its temporary file and did not decode.
NormalizeFailed == req.ep = "multi_ref" /\ cause.op = "decode"

\* Every temporary file still on disk comes at or after a path whose
\* os.remove raised: the finally block removed the files in creation order
\* up to the first removal that raised.
RemovedInOrder ==
    \A i \in 1..Len(temp_input_paths) :
        temp_input_paths[i] \in disk =>
            \E j \in 1..i : temp_input_paths[j] \in remove_failed

\* C12 (as amended): in generate_with_multiple_references, when one reference
\* image does not decode the whole call fails: the loop stops at that image,
\* no temporary file is made for the later images, the edit call is not made,
\* nothing is stored, the caller receives an exception, and the finally block
\* removes the temporary files written so far in creation order, up to the
\* first removal that raises.
C12_NormalizeFailureIsFatal ==
    NormalizeFailed =>
        /\ pc \in {"cleanup", "failed"}
        /\ req.images[idx] = "corrupt"
        /\ \A k \in 1..(idx - 1) : req.images[k] = "ok"
        /\ Len(temp_input_paths) = idx
        /\ created \subseteq { temp_input_paths[i] : i \in 1..idx }
        /\ CallsTo(ImageModelOps) = {}
        /\ NothingStored
        /\ pending = [kind |-> "exception",
                      msg |-> <<"Error generating image with multiple references: ">>
                                \o cause.text]
        /\ Terminal => (resp.kind = "exception" /\ RemovedInOrder)

C12_Witness ==
    /\ NormalizeFailed
    /\ Len(req.images) = 2
    /\ req.images[1] = "corrupt"
    /\ req.images[2] = "ok"
    /\ pc = "failed"
    /\ Len(temp_input_paths) = 1
    /\ disk = {}
    /\ deleted # {}

ClaimedDecodes(kind) == kind = "ok"

\* C12 (as claimed): in generate_with_multiple_references with several
\* reference images of which one does not decode, that image is skipped, the
\* edit call is still made with the remaining images in their order, and the
\* temporary files of all the images are deleted.
C12_FailingImageIsSkipped ==
    (NormalizeFailed /\ Len(req.images) >= 2 /\ Terminal) =>
        /\ Cardinality(CallsTo({"edit"})) = 1
        /\ \A i \in CallsTo({"edit"}) :
               calls[i].arg.image = SelectSeq(req.images, ClaimedDecodes)
        /\ Len(temp_input_paths) = Len(req.images)
        /\ disk = {}

\* The ad-text segment as the specification words it.
ClaimedAdSuffix ==
    IF req.ad_text = "" THEN <<>>
    ELSE <<". Include the following text in the ad: '", req.ad_text, "'">>

HintSeparators == {". Style hints: ", ". Style hint: "}

\* The prompt of the i-th call of the log.
PromptOf(i) == calls[i].arg.prompt

\* C13: for a request with no reference image, the prompt sent to the image
\* model is the base prompt, followed only by the ad-text segment when ad text
\* is given; it holds no "Style hints" or "Style hint" segment, and no vision
\* call is made.
C13_NoReferencesNoStyleHints ==
    req.images = <<>> =>
        /\ CallsTo({"vision"}) = {}
        /\ \A i \in CallsTo(ImageModelOps) :
               /\ PromptOf(i) = BasePrompt \o ClaimedAdSuffix
               /\ \A k \in DOMAIN PromptOf(i) : PromptOf(i)[k] \notin HintSeparators

C13_Witness ==
    /\ req.ep = "generate"
    /\ req.images = <<>>
    /\ pc = "done"
    /\ \E i \in CallsTo({"generate"}) :
         PromptOf(i) = <<"a red car">> /\ calls[i].result = "data"

\* C14: on every entry point that takes ad_text, when ad_text is set the
\* prompt sent to the image model ends with exactly
\* ". Include the following text in the ad: '<ad_text>'", as its last segment,
\* with or without a style hint before it.
C14_AdTextSuffixIsLast ==
    (req.ep \in FileEndpoints /\ req.ad_text # "") =>
        \A i \in CallsTo(ImageModelOps) :
            LET p == PromptOf(i)
            IN  /\ Len(p) >= Len(ClaimedAdSuffix)
                /\ SubSeq(p, Len(p) - Len(ClaimedAdSuffix) + 1, Len(p)) = ClaimedAdSuffix

\* descs joined with "; ", written out position by position.
ClaimedJoin(descs) ==
    [k \in 1..(2 * Len(descs) - 1) |->
        IF k % 2 = 1 THEN descs[(k + 1) \div 2] ELSE "; "]

\* C15: in generate with N >= 1 reference images that all yield a style
\* description, exactly N vision calls are made, one per image in
\* reference-image order and all before the image model call, and the prompt
\* sent is the base prompt, ". Style hints: " and the N descriptions joined
\* with "; " in that order; in generate_with_reference_image the separator is
\* the singular ". Style hint: ".
C15_StyleHintsInOrder ==
    /\ req.ep = "generate" =>
          /\ \A i \in CallsTo({"vision"}) : i <= Len(req.images) /\ calls[i].arg = i
          /\ Len(style_descriptions) =
                Cardinality({ i \in CallsTo({"vision"}) : calls[i].result = "ok" })
          /\ (Len(req.images) >= 1 /\ Len(style_descriptions) = Len(req.images)) =>
                /\ Cardinality(CallsTo({"vision"})) = Len(req.images)
                /\ \A i \in CallsTo({"generate"}) :
                      /\ i = Len(req.images) + 1
                      /\ PromptOf(i) = BasePrompt \o <<". Style hints: ">>
                                         \o ClaimedJoin(style_descriptions)
    /\ (req.ep = "ref_style" /\ Len(style_descriptions) = 1) =>
          /\ CallsTo({"vision"}) = {1}
          /\ \A i \in CallsTo({"generate"}) :
                /\ i = 2
                /\ SubSeq(PromptOf(i), 1, 3)
                     = BasePrompt \o <<". Style hint: ", style_descriptions[1]>>
                /\ \A k \in DOMAIN PromptOf(i) : PromptOf(i)[k] # ". Style hints: "

C15_Witness ==
    /\ req.ep = "generate"
    /\ Len(req.images) = 2
    /\ Cardinality(CallsTo({"vision"})) = 2
    /\ \E i \in CallsTo({"generate"}) :
         PromptOf(i) = <<"a red car", ". Style hints: ", "warm tones", "; ", "flat design">>

\* The request of the scenario: no reference image, size 1024x1024,
\* background and quality "auto", no compression given.
PlainGenerate ==
    /\ req.ep = "generate"
    /\ req.images = <<>>
    /\ req.size = "1024x1024"
    /\ req.background = "auto"
    /\ req.quality = "auto"
    /\ req.output_compression = <<>>

\* The keyword arguments of the i-th call of the log.
KeysOf(i) == DOMAIN calls[i].arg

\* The image model call of a generate request carries what the request says:
\* size, background and quality exactly when they are not "auto",
\* output_compression exactly when it was given.
OptionalKeysWhenSet(i) ==
    LET a == calls[i].arg
    IN  /\ ("size" \in KeysOf(i)) <=> (req.size # "auto")
        /\ ("background" \in KeysOf(i)) <=> (req.background # "auto")
        /\ ("quality" \in KeysOf(i)) <=> (req.quality # "auto")
        /\ ("output_compression" \in KeysOf(i)) <=> (req.output_compression # <<>>)
        /\ "size" \in KeysOf(i) => a.size = req.size
        /\ "background" \in KeysOf(i) => a.background = req.background
        /\ "quality" \in KeysOf(i) => a.quality = req.quality
        /\ "output_compression" \in KeysOf(i) =>
              a.output_compression = req.output_compression[1]

\* C16 (as amended): a generate request with no reference image, size
\* 1024x1024, background auto and quality auto makes exactly one call to the
\* image model, with the model, the prompt unchanged, n = 1, size = 1024x1024
\* and output_format, which is always sent; no background and no quality key.
\* In general size, background and quality are in the call exactly when not
\* "auto", and output_compression exactly when given.
C16_GenerateCallParams ==
    req.ep = "generate" =>
        /\ Cardinality(CallsTo({"generate"})) <= 1
        /\ \A i \in CallsTo({"generate"}) :
              /\ {"model", "prompt", "n", "output_format"} \subseteq KeysOf(i)
              /\ KeysOf(i) \subseteq {"model", "prompt", "n", "output_format", "size",
                                      "background", "quality", "output_compression"}
              /\ calls[i].arg.model = "gpt-image-1"
              /\ calls[i].arg.n = 1
              /\ calls[i].arg.output_format = req.output_format
              /\ OptionalKeysWhenSet(i)
        /\ PlainGenerate =>
              /\ Terminal => Cardinality(CallsTo({"generate"})) = 1
              /\ \A i \in CallsTo({"generate"}) :
                    /\ KeysOf(i) = {"model", "prompt", "n", "size", "output_format"}
                    /\ PromptOf(i) = <<"a red car">>
                    /\ calls[i].arg.size = "1024x1024"

C16_Witness ==
    /\ PlainGenerate
    /\ pc = "done"
    /\ \E i \in CallsTo({"generate"}) :
         KeysOf(i) = {"model", "prompt", "n", "size", "output_format"}

\* C16 (as claimed): the call of that request carries the model, the prompt,
\* n and size, and nothing else.
C16_OnlyModelPromptNSize ==
    PlainGenerate =>
        \A i \in CallsTo({"generate"}) : KeysOf(i) = {"model", "prompt", "n", "size"}

\* The number of source images the i-th call of the log carries:
\* edit_image_with_mask passes one image, edit_image a list.
SourceImages(i) ==
    IF req.ep = "mask_edit" THEN 1 ELSE Len(calls[i].arg.image)

\* C17: an edit call to the image model that carries a mask carries exactly
\* one source image.
C17_MaskImpliesOneImage ==
    \A i \in CallsTo({"edit"}) :
        "mask" \in KeysOf(i) => SourceImages(i) = 1

ModelOps == ImageModelOps \cup {"vision"}

\* No call to the vision or the image model follows the i-th call of the log.
LastModelCall(i) == \A j \in CallsTo(ModelOps) : j <= i

\* At most one call to the image model, at most one vision call per image.
AtMostOnce ==
    /\ Cardinality(CallsTo(ImageModelOps)) <= 1
    /\ \A i, j \in CallsTo({"vision"}) : calls[i].arg = calls[j].arg => i = j

\* C18 (as amended): no call to a model is retried: the image model is called
\* at most once per request and the vision model at most once per reference
\* image; after a failed call to the image model, and in generate after a
\* failed vision call, no further generation, edit or vision call is made.  In
\* generate_with_reference_image and modify_image a failed vision call is
\* followed by the one image model call, not by another vision call.
C18_NoRetries ==
    /\ AtMostOnce
    /\ \A i \in CallsTo(ImageModelOps) : LastModelCall(i)
    /\ req.ep = "generate" =>
          \A i \in CallsTo({"vision"}) : calls[i].result = "error" => LastModelCall(i)
    /\ req.ep \in {"ref_style", "modify"} =>
          \A i \in CallsTo({"vision"}) :
              /\ CallsTo({"vision"}) = {i}
              /\ calls[i].result = "error" =>
                    /\ pc \notin {"prepare", "temp", "generate"} =>
                          (CallsTo({"generate"}) # {} \/ cause.op \in {"temp_write", "decode"})

C18_Witness ==
    /\ req.ep = "generate"
    /\ Len(req.images) = 2
    /\ pc = "failed"
    /\ Len(calls) = 2
    /\ calls[1].op = "vision" /\ calls[1].result = "ok"
    /\ calls[2].op = "vision" /\ calls[2].result = "error"

\* C18 (as claimed): the same bounds, and after the first failed call to a
\* model no further generation, edit or vision call is made, on any entry
\* point.
C18_NothingAfterFirstFailure ==
    /\ AtMostOnce
    /\ \A i \in CallsTo(ModelOps) : calls[i].result = "error" => LastModelCall(i)

\* The call to the image model of a request of the two HTTP entry points
\* failed.
ImageCallFailed ==
    /\ req.ep \in HttpEndpoints
    /\ \E i \in CallsTo(ImageModelOps) : calls[i].result = "error"

\* What the caller of the edit entry point reads after a failed edit call:
\* the fixed quota or rate-limit text, or the underlying message.
ClaimedEditDetail(text) ==
    IF Contains(Lower(text), <<"quota">>)
      THEN <<"Error editing image: ", "429", ": ",
             "OpenAI API quota exceeded. Please try again later or check your API key.">>
    ELSE IF Contains(Lower(text), <<"rate", "limit">>)
      THEN <<"Error editing image: ", "429", ": ",
             "OpenAI API rate limit reached. Please try again later.">>
    ELSE <<"Error editing image: ", "500", ": ", "Error editing image: ">> \o text

\* C19 (as amended): on the generate and edit entry points, when the call to
\* the image model fails the caller receives an error response (500) and
\* nothing is written to object storage, local storage or the metadata store.
\* The detail wraps the underlying message ("Error generating image: Error
\* generating image: <message>"; "Error editing image: 500: Error editing
\* image: <message>"), except that an edit failure naming quota or rate limit
\* carries the fixed quota or rate-limit text in its place.
C19_ModelFailureIsWrapped ==
    ImageCallFailed =>
        /\ pc = "failed"
        /\ cause.op \in ImageModelOps
        /\ resp.kind = "http_error"
        /\ resp.status = 500
        /\ req.ep = "generate" =>
              resp.detail = <<"Error generating image: ", "Error generating image: ">>
                              \o cause.text
        /\ req.ep = "edit" => resp.detail = ClaimedEditDetail(cause.text)
        /\ CallsTo(StorageOps) = {}
        /\ NothingStored

C19_Witness ==
    /\ ImageCallFailed
    /\ req.ep = "generate"
    /\ pc = "failed"
    /\ resp.detail = <<"Error generating image: ", "Error generating image: ",
                       "connection", "reset">>
    /\ NothingStored

\* C19 (as claimed): when the call to the image model fails, the caller
\* receives an error response whose text includes the underlying message, and
\* nothing is written.
C19_UnderlyingMessageIncluded ==
    ImageCallFailed =>
        /\ pc = "failed"
        /\ resp.kind = "http_error"
        /\ Contains(resp.detail, cause.text)
        /\ NothingStored

\* The folder the artifacts of an entry point are kept under.
ClaimedFolder == IF req.ep = "generate" THEN "generated" ELSE "edited"

\* The response names a file that was written, and its URL, when it has one,
\* is the URL of that file: the remote object or the local fallback file.
UrlOfPersistedArtifact ==
    LET object == <<ClaimedFolder, "/">> \o resp.filename
        file == <<"static/", ClaimedFolder, "/">> \o resp.filename
    IN  /\ resp.filename # <<>>
        /\ \/ /\ resp.public_url = <<"https://bucket/">> \o object
              /\ object \in bucket
           \/ /\ resp.public_url = <<>>
              /\ object \in bucket
           \/ /\ resp.public_url = <<"/static/", ClaimedFolder, "/">> \o resp.filename
              /\ file \in local_files

\* C20: a response of the generate or edit entry point carries a public URL
\* and a filename only after the artifact was persisted, remotely or by the
\* local fallback: never a URL for bytes that were not written; and when the
\* image model returns no image data the response carries no URL and no
\* filename and nothing is written.
C20_UrlOnlyAfterPersistence ==
    req.ep \in HttpEndpoints =>
        /\ resp.kind = "http_ok" <=> pc = "done"
        /\ (resp.kind = "http_ok" /\ resp.data) => UrlOfPersistedArtifact
        /\ (resp.kind = "http_ok" /\ ~resp.data) =>
              (resp.public_url = <<>> /\ resp.filename = <<>>)
        /\ (\E i \in CallsTo(ImageModelOps) : calls[i].result = "nodata") =>
              /\ CallsTo(StorageOps) = {}
              /\ NothingStored
              /\ resp.kind = "http_ok" /\ ~resp.data

C20_Witness ==
    /\ req.ep = "edit"
    /\ pc = "done"
    /\ resp.kind = "http_ok"
    /\ resp.data
    /\ resp.public_url = <<"https://bucket/", "edited", "/">> \o resp.filename
    /\ (<<"edited", "/">> \o resp.filename) \in bucket

\* The temporary names the requests in flight have drawn, with who drew them.
DrawnNames ==
    UNION { {p} \X (1..Len(inflight[p].paths)) : p \in InFlight }

\* C21: with several requests in flight, in any interleaving, no two
\* temporary files share a name: a request never overwrites another's
\* temporary file, and the cleanup of one request never removes a temporary
\* file of another request still running.
C21_TempNamesNeverCollide ==
    /\ \A x, y \in DrawnNames :
          inflight[x[1]].paths[x[2]] = inflight[y[1]].paths[y[2]] => x = y
    /\ clobbered = {}
    /\ \A f \in temp_dir :
          \E i \in 1..Len(inflight[f.owner].paths) : inflight[f.owner].paths[i] = f.path

C21_Witness ==
    /\ \A p \in InFlight : inflight[p].at = "cleanup" /\ inflight[p].removed = 0
    /\ \E p, q \in InFlight :
         /\ p # q
         /\ inflight[p].written = 2
         /\ inflight[q].written >= 1
    /\ Cardinality(temp_dir) >= 3

\* The edit calls of edit_image_with_mask that carry a mask.
MaskedEdits ==
    IF req.ep = "mask_edit"
      THEN { i \in CallsTo({"edit"}) : "mask" \in KeysOf(i) }
      ELSE {}

\* C22: in edit_image_with_mask, for a single-channel luminance mask the RGBA
\* mask sent has, at every pixel, an alpha equal to the luminance of the
\* input at that pixel; a mask that is RGBA already is sent with every
\* channel of every pixel unchanged.
C22_MaskAlphaIsLuminance ==
    \A i \in MaskedEdits :
        LET sent == calls[i].arg.mask
        IN  /\ Len(sent) = Len(req.mask_pixels)
            /\ \A k \in 1..Len(sent) : Len(sent[k]) = 4
            /\ req.mask = "L" =>
                  \A k \in 1..Len(sent) : sent[k][4] = req.mask_pixels[k][1]
            /\ req.mask = "RGBA" => sent = req.mask_pixels

C22_Witness ==
    /\ req.ep = "mask_edit"
    /\ req.mask = "L"
    /\ req.mask_pixels = << <<0>>, <<128>> >>
    /\ \E i \in MaskedEdits :
         calls[i].arg.mask = << <<0, 0, 0, 0>>, <<128, 128, 128, 128>> >>

\* The k-th call of the log, a metadata insert, comes after a successful
\* upload of the same path and a successful lookup of its URL.
AfterUploadAndUrl(k) ==
    \E i \in CallsTo({"storage_upload"}), j \in CallsTo({"get_public_url"}) :
        /\ i < j /\ j < k
        /\ calls[i].result = "ok" /\ calls[i].arg = calls[k].arg.storage_path
        /\ calls[j].result = "ok" /\ calls[j].arg = calls[k].arg.storage_path

\* C23: in upload_image a metadata record is written only after the remote
\* upload and the public-URL lookup succeeded: when the call falls back to
\* local storage there is no metadata record, and a record's image_id is the
\* returned filename and its storage_path is <folder>/<filename>.
C23_MetadataOnlyAfterRemoteUpload ==
    /\ \A k \in CallsTo({"metadata_insert"}) : AfterUploadAndUrl(k)
    /\ local_files # {} => metadata = {}
    /\ \A m \in metadata :
          /\ pc = "done"
          /\ resp.kind = "http_ok"
          /\ m.image_id = resp.filename
          /\ m.storage_path = <<ClaimedFolder, "/">> \o resp.filename
          /\ m.storage_path \in bucket
          /\ m.public_url = resp.public_url
          /\ m.public_url # <<>>

C23_Witness ==
    /\ req.ep = "generate"
    /\ pc = "done"
    /\ local_files = {}
    /\ \E m \in metadata :
         /\ m.image_id = resp.filename
         /\ m.storage_path = <<"generated", "/">> \o resp.filename

\* The edit calls of the edit entry point.
EndpointEdits == IF req.ep = "edit" THEN CallsTo({"edit"}) ELSE {}

\* C24: in edit_image the edit call always carries the background and the
\* quality key with the request's values, also when they are "auto"; size
\* only when it is not "auto", output_compression only when it was given, and
\* mask only when a mask file came with the request.
C24_EditCallParams ==
    \A i \in EndpointEdits :
        LET a == calls[i].arg
        IN  /\ {"background", "quality"} \subseteq KeysOf(i)
            /\ a.background = req.background
            /\ a.quality = req.quality
            /\ ("size" \in KeysOf(i)) <=> (req.size # "auto")
            /\ "size" \in KeysOf(i) => a.size = req.size
            /\ ("output_compression" \in KeysOf(i)) <=> (req.output_compression # <<>>)
            /\ "output_compression" \in KeysOf(i) =>
                  a.output_compression = req.output_compression[1]
            /\ ("mask" \in KeysOf(i)) <=> (req.mask # "none")

C24_Witness ==
    /\ req.background = "auto"
    /\ req.quality = "auto"
    /\ req.size = "auto"
    /\ req.mask = "none"
    /\ \E i \in EndpointEdits :
         /\ calls[i].arg.background = "auto"
         /\ calls[i].arg.quality = "auto"
         /\ "size" \notin KeysOf(i)
         /\ "mask" \notin KeysOf(i)

\* The edit call of a request of the edit entry point failed.
EditCallFailed == req.ep = "edit" /\ pc = "failed" /\ cause.op = "edit"

\* The HTTPException edit_image raised, read back from the text
\* "<status>: <detail>" that edit_image_endpoint quotes in its own detail.
EditImageRaised ==
    [status |-> resp.detail[2], detail |-> SubSeq(resp.detail, 4, Len(resp.detail))]

QuotaOutcome ==
    [status |-> "429",
     detail |-> <<"OpenAI API quota exceeded. Please try again later or check your API key.">>]

RateLimitOutcome ==
    [status |-> "429",
     detail |-> <<"OpenAI API rate limit reached. Please try again later.">>]

GenericOutcome == [status |-> "500", detail |-> <<"Error editing image: ">> \o cause.text]

\* C25: in the error classification of edit_image the quota test comes
\* first: a text holding both "quota" and "rate limit", in any letter case,
\* gives the quota 429; a text holding only "rate limit" gives the rate-limit
\* 429; and every failure gives exactly one of quota 429, rate-limit 429 and
\* generic 500.
C25_QuotaTakesPrecedence ==
    EditCallFailed =>
        LET text == Lower(cause.text)
            quota == Contains(text, <<"quota">>)
            rate == Contains(text, <<"rate", "limit">>)
        IN  /\ quota => EditImageRaised = QuotaOutcome
            /\ (rate /\ ~quota) => EditImageRaised = RateLimitOutcome
            /\ (~rate /\ ~quota) => EditImageRaised = GenericOutcome
            /\ Cardinality({ o \in {QuotaOutcome, RateLimitOutcome, GenericOutcome} :
                               o = EditImageRaised }) = 1

C25_Witness ==
    /\ EditCallFailed
    /\ cause.text = <<"quota", "and", "rate", "limit">>
    /\ EditImageRaised = QuotaOutcome

\* The loops over the images of the request stay within the list, and the
\* persistence chain makes at most one remote upload of the image and at most
\* one local write.
BoundedWork ==
    /\ idx <= Len(req.images) + 1
    /\ Len(temp_input_paths) <= Len(req.images) + 1
    /\ Cardinality(CallsTo({"vision"})) <= Len(req.images)
    /\ Cardinality(ImageUploads) <= 1
    /\ Cardinality(local_files) <= 1

\* C26: given that every collaborator call returns or fails, every request to
\* any entry point ends in Done or Failed: the loops over the images end for
\* every finite list, and the persistence chain (remote upload, then local
\* write) ends after at most two attempts.
C26_EveryRequestEnds == <>Terminal /\ []BoundedWork

C26_Witness ==
    /\ req.ep = "generate"
    /\ Len(req.images) = MaxRefs
    /\ idx = MaxRefs + 1
    /\ pc = "done"
    /\ \E i \in ImageUploads : calls[i].result = "error"
    /\ Cardinality(local_files) = 1

\* The content-analysis call of a modify_image run failed.
AnalysisFailed == req.ep = "modify" /\ VisionFailed

\* The run has passed the call to the image model: it did not end on the
\* write or the decoding of its temporary input file.
PastGeneration == Terminal /\ cause.op \notin {"temp_write", "decode"}

\* C27: in modify_image a failing content-analysis call is not fatal: the
\* analysis text becomes "Unable to analyze image content", the image model
\* is still called, exactly once, with that text in the prompt, and the
\* temporary input file is removed whether that call then succeeds or fails
\* (the finally block reaches its os.remove on both paths).
C27_AnalysisFailureIsNotFatal ==
    AnalysisFailed =>
        /\ analysis = <<"Unable to analyze image content">>
        /\ pc # "prepare"
        /\ Cardinality(CallsTo(ImageModelOps)) <= 1
        /\ \A i \in CallsTo({"generate"}) :
              /\ SubSeq(PromptOf(i), 1, 4)
                   = <<"Image content: ", "Unable to analyze image content",
                       ". Modification request: ", "a red car">>
              /\ i = 2
        /\ PastGeneration => Cardinality(CallsTo({"generate"})) = 1
        /\ Terminal =>
              /\ disk \subseteq remove_failed
              /\ (created \ remove_failed) \subseteq deleted
              /\ remove_failed = {} => (pc = "done" <=> pending.kind = "return")

C27_Witness ==
    /\ AnalysisFailed
    /\ pc = "failed"
    /\ cause.op = "generate"
    /\ Cardinality(CallsTo({"generate"})) = 1
    /\ created # {}
    /\ created = deleted
    /\ disk = {}
====
